---- MODULE Spec2Model ----
(***************************************************************************)
(* Model of marcus-k/semf-model:                                           *)
(*   src/data/parse.py       the Table Decoder (fixed-width file -> CSV)   *)
(*   src/analysis/3d-plot.py the Surface Renderer (CSV -> pivoted grid)    *)
(*                                                                         *)
(* Text is modelled as sequences of one-character strings.  A cell of a    *)
(* data frame is one of                                                    *)
(*   NaN                 a missing value                                   *)
(*   Num(m, s)           the decimal number m / 10^s (normalised)          *)
(*   Str(cs)             a string of an object-dtype column                *)
(*   Inf, NegInf, Ratio  results of the true division N / Z                *)
(***************************************************************************)
EXTENDS Integers, Sequences, FiniteSets, TLC

\* ------------------------------------------------------------------ bounds
\* Largest number of data lines of an input file.
MaxRows == 2
\* Neutron counts of the generated data lines are 0..MaxN.
MaxN == 1
\* Proton counts of the generated data lines are 0..MaxZ.
MaxZ == 1

\* ------------------------------------------------------------ cell values
NaN == [t |-> "nan"]
Inf == [t |-> "inf"]
NegInf == [t |-> "-inf"]
Str(cs) == [t |-> "str", v |-> cs]

RECURSIVE Normalize(_, _)
\* The decimal m / 10^s without trailing zeros of the fraction.
Normalize(m, s) ==
    IF s > 0 /\ m % 10 = 0 THEN Normalize(m \div 10, s - 1)
    ELSE [t |-> "num", m |-> m, s |-> s]

Num(m, s) == Normalize(m, s)
IntCell(n) == Num(n, 0)
IsNum(c) == c.t = "num"
IsStr(c) == c.t = "str"

RECURSIVE Gcd(_, _)
Gcd(a, b) == IF b = 0 THEN a ELSE Gcd(b, a % b)

\* ------------------------------------------------------------------- text
Digit == <<"0", "1", "2", "3", "4", "5", "6", "7", "8", "9">>
DigitChars == {Digit[i] : i \in 1..10}
DigitVal(c) == (CHOOSE i \in 1..10 : Digit[i] = c) - 1

RECURSIVE Digits(_)
\* The decimal text of a natural number.
Digits(n) == IF n < 10 THEN <<Digit[n + 1]>> ELSE Digits(n \div 10) \o <<Digit[(n % 10) + 1]>>

Spaces(n) == [i \in 1..n |-> " "]
\* A token right-justified in a fixed-width field.
RJust(tok, w) == IF Len(tok) >= w THEN SubSeq(tok, 1, w) ELSE Spaces(w - Len(tok)) \o tok

Min(a, b) == IF a < b THEN a ELSE b

\* Mutant of Slice: a field the line's end cuts is dropped, not truncated.
SliceWholeField(line, from, to) ==
    IF to > Len(line) THEN <<>> ELSE SubSeq(line, from + 1, to)

\* Python's line[from:to] (0-based, clipped to the line).
Slice(line, from, to) == SubSeq(line, from + 1, Min(to, Len(line)))

\* The characters FixedWidthReader strips from both ends of a field.
delimiter == {"\r", "\n", "\t", " "}

RECURSIVE LStrip(_)
LStrip(s) == IF s # <<>> /\ Head(s) \in delimiter THEN LStrip(Tail(s)) ELSE s
RECURSIVE RStrip(_)
RStrip(s) ==
    IF s # <<>> /\ s[Len(s)] \in delimiter THEN RStrip(SubSeq(s, 1, Len(s) - 1)) ELSE s
Strip(s) == RStrip(LStrip(s))

\* str.replace("#", ""): the string without any '#'.
StrReplaceMarker(s) == SelectSeq(s, LAMBDA c : c # "#")

\* ------------------------------------------------------- numeric parsing
RECURSIVE DigitsVal(_, _)
DigitsVal(s, acc) == IF s = <<>> THEN acc ELSE DigitsVal(Tail(s), 10 * acc + DigitVal(Head(s)))

Unsigned(s) == IF s # <<>> /\ Head(s) \in {"-", "+"} THEN Tail(s) ELSE s
Sign(s) == IF s # <<>> /\ Head(s) = "-" THEN -1 ELSE 1
DotCount(s) == Cardinality({i \in 1..Len(s) : s[i] = "."})
DotPos(s) == CHOOSE i \in 1..Len(s) : s[i] = "."

\* Whether a string is a decimal literal: [sign] digits [. digits], with a digit.
IsNumeric(s) ==
    LET b == Unsigned(s)
    IN  /\ \A i \in 1..Len(b) : b[i] \in DigitChars \cup {"."}
        /\ DotCount(b) <= 1
        /\ \E i \in 1..Len(b) : b[i] \in DigitChars

\* The value of a decimal literal.
NumVal(s) ==
    LET b == Unsigned(s)
        scale == IF DotCount(b) = 0 THEN 0 ELSE Len(b) - DotPos(b)
        ds == SelectSeq(b, LAMBDA c : c # ".")
    IN  Num(Sign(s) * DigitsVal(ds, 0), scale)

\* ------------------------------------------------------------ parse.py
\* read_fwf(widths=...): the widths of the 23 fixed-width columns.
widths == <<1, 3, 5, 5, 5, 1, 3, 4, 1, 14, 12, 13, 1, 10, 1, 2, 13, 11, 1, 3, 1, 13, 12>>
\* read_fwf(header=28): line 28 (0-based) is the header line, data follows it.
header == 28
\* read_fwf(usecols=...): the 0-based columns kept.
usecols == <<2, 3, 11, 13>>
\* read_fwf(names=...): the names of the kept columns.
names == <<"N", "Z", "E", "U(E)">>

RECURSIVE Offset(_)
\* The 0-based offset at which 0-based column c starts.
Offset(c) == IF c = 0 THEN 0 ELSE Offset(c - 1) + widths[c]
\* read_fwf turns the widths into the half-open ranges of the columns.
colspecs == [c \in 1..Len(widths) |-> <<Offset(c - 1), Offset(c - 1) + widths[c]>>]
ColFrom(c) == colspecs[c + 1][1]
ColTo(c) == colspecs[c + 1][2]

\* The strings read_fwf reads as a missing value (pandas' default na_values).
NaValues ==
    { <<>>,
      <<"N", "A">>, <<"N", "a", "N">>, <<"n", "a", "n">>, <<"N", "/", "A">>,
      <<"n", "/", "a">>, <<"N", "U", "L", "L">>, <<"n", "u", "l", "l">>,
      <<"N", "o", "n", "e">>, <<"<", "N", "A", ">">>, <<"#", "N", "A">>,
      <<"#", "N", "/", "A">>, <<"#", "N", "/", "A", " ", "N", "/", "A">>,
      <<"-", "N", "a", "N">>, <<"-", "n", "a", "n">>,
      <<"1", ".", "#", "I", "N", "D">>, <<"-", "1", ".", "#", "I", "N", "D">>,
      <<"1", ".", "#", "Q", "N", "A", "N">>, <<"-", "1", ".", "#", "Q", "N", "A", "N">> }

\* The stripped text of the 0-based fixed-width column c of a line.
Field(line, c) == Strip(Slice(line, ColFrom(c), ColTo(c)))

\* skip_blank_lines: a line all of whose fields are empty is no row.
IsEmptyLine(line) == \A c \in 0..(Len(widths) - 1) : Field(line, c) = <<>>

\* The raw (stripped) text of the k-th kept column of a line.
RawField(line, k) == Field(line, usecols[k])

\* Type inference of one column: numeric when every non-missing field is a
\* number, otherwise an object column of strings.
InferColumn(fs) ==
    LET na(i) == fs[i] \in NaValues
    IN  IF \A i \in 1..Len(fs) : na(i) \/ IsNumeric(fs[i])
        THEN [i \in 1..Len(fs) |-> IF na(i) THEN NaN ELSE NumVal(fs[i])]
        ELSE [i \in 1..Len(fs) |-> IF na(i) THEN NaN ELSE Str(fs[i])]

\* The lines after the header line that are rows of the table.
DataLines(f) == SelectSeq(SubSeq(f, header + 2, Len(f)), LAMBDA l : ~IsEmptyLine(l))

\* pd.read_fwf: the frame of the four kept columns.
read_fwf(f) ==
    LET ls == DataLines(f)
        col(k) == InferColumn([i \in 1..Len(ls) |-> RawField(ls[i], k)])
    IN  [cols |-> names,
         data |-> [n \in {names[k] : k \in 1..Len(names)} |->
                      col(CHOOSE k \in 1..Len(names) : names[k] = n)]]

\* A column is of object dtype when it holds a string.
IsObject(col) == \E i \in 1..Len(col) : IsStr(col[i])

\* pd.to_numeric(errors="coerce") on one cell.
ToNumericCoerce(c) ==
    IF IsStr(c) THEN (IF IsNumeric(c.v) THEN NumVal(c.v) ELSE NaN) ELSE c

\* Whether pd.to_numeric (errors="raise") can convert a cell.
CanConvert(c) == IsStr(c) => (c.v = <<>> \/ IsNumeric(c.v))

\* pd.to_numeric (errors="raise") on a convertible cell; "" is a missing value.
ToNumeric(c) == IF IsStr(c) THEN (IF c.v = <<>> THEN NaN ELSE NumVal(c.v)) ELSE c

\* Series.str.replace("#", "") on one cell of an object column.
StrReplace(c) == IF IsStr(c) THEN Str(StrReplaceMarker(c.v)) ELSE c

isnull(c) == c = NaN

\* Mutant of Known: the "1 -" forgotten.
KnownInverted(c) == IntCell(IF isnull(ToNumericCoerce(c)) THEN 1 ELSE 0)

\* Mutant of Known: computed from the field with its marker stripped.
KnownAfterStrip(c) ==
    IntCell(1 - (IF isnull(ToNumericCoerce(StrReplace(c))) THEN 1 ELSE 0))

\* Line 15: 1 - isnull(to_numeric(E, errors="coerce")).
Known(c) == IntCell(1 - (IF isnull(ToNumericCoerce(c)) THEN 1 ELSE 0))

Add(a, b) == IF IsNum(a) /\ IsNum(b) THEN IntCell(a.m + b.m) ELSE NaN
\* Mutant of Sub: parse.py's commented-out line 22 (N-Z less 1 when A is odd).
SubOddAdjusted(a, b) ==
    IF IsNum(a) /\ IsNum(b)
    THEN IntCell(a.m - b.m - (IF (a.m + b.m) % 2 = 1 THEN 1 ELSE 0))
    ELSE NaN

Sub(a, b) == IF IsNum(a) /\ IsNum(b) THEN IntCell(a.m - b.m) ELSE NaN

\* Mutant of TrueDiv: a zero divisor guarded by the value 0.
TrueDivGuarded(a, b) ==
    IF ~(IsNum(a) /\ IsNum(b)) THEN NaN
    ELSE IF b.m = 0 THEN IntCell(0)
    ELSE LET g == Gcd(IF a.m < 0 THEN -a.m ELSE a.m, b.m)
         IN  [t |-> "ratio", n |-> a.m \div g, d |-> b.m \div g]

\* Series true division of integers: no exception on a zero divisor.
TrueDiv(a, b) ==
    IF ~(IsNum(a) /\ IsNum(b)) THEN NaN
    ELSE IF b.m = 0 THEN (IF a.m = 0 THEN NaN ELSE IF a.m > 0 THEN Inf ELSE NegInf)
    ELSE LET g == Gcd(IF a.m < 0 THEN -a.m ELSE a.m, b.m)
         IN  [t |-> "ratio", n |-> a.m \div g, d |-> b.m \div g]

\* df[name] = col: replaces the column, or appends a new one.
SetColumn(d, name, col) ==
    IF \E k \in 1..Len(d.cols) : d.cols[k] = name
    THEN [d EXCEPT !.data[name] = col]
    ELSE [cols |-> Append(d.cols, name), data |-> (name :> col) @@ d.data]

EmptyField == [t |-> "empty"]
\* to_csv writes a missing value as an empty field.
CsvField(c) == IF c = NaN THEN EmptyField ELSE c
\* The rows of a frame at the positions keep, as CSV lines.
CsvLines(d, keep) ==
    [j \in 1..Len(keep) |-> [k \in 1..Len(d.cols) |-> CsvField(d.data[d.cols[k]][keep[j]])]]
Positions(d) == [i \in 1..Len(d.data["N"]) |-> i]

\* Mutant of to_csv: rows with a missing E are dropped (dropna).
to_csv_dropna(d) ==
    [header |-> d.cols,
     rows |-> CsvLines(d, SelectSeq(Positions(d), LAMBDA i : d.data["E"][i] # NaN))]

\* Mutant of to_csv: a later row of an (N, Z) pair is dropped (drop_duplicates).
to_csv_drop_duplicates(d) ==
    [header |-> d.cols,
     rows |-> CsvLines(d, SelectSeq(Positions(d), LAMBDA i :
                 ~\E j \in 1..(i - 1) :
                     d.data["N"][j] = d.data["N"][i] /\ d.data["Z"][j] = d.data["Z"][i]))]

\* to_csv(index=False): the header and one line per row of the frame.
to_csv(d) ==
    [header |-> d.cols,
     rows |-> [i \in 1..Len(d.data["N"]) |->
                 [k \in 1..Len(d.cols) |-> CsvField(d.data[d.cols[k]][i])]]]

\* ------------------------------------------------------------ 3d-plot.py
\* read_csv reads an empty field as a missing value.
FrameCell(f) == IF f = EmptyField THEN NaN ELSE f
\* pd.read_csv: the frame of the columns the header names.
read_csv(c) ==
    [cols |-> c.header,
     data |-> [n \in {c.header[k] : k \in 1..Len(c.header)} |->
                 LET k == CHOOSE j \in 1..Len(c.header) : c.header[j] = n
                 IN  [i \in 1..Len(c.rows) |-> FrameCell(c.rows[i][k])]]]

\* Mutant of Div1000: the conversion to MeV left out.
NoConversion(c) == c

\* x / 1000 on one cell (keV to MeV).
Div1000(c) == IF IsNum(c) THEN Num(c.m, c.s + 3) ELSE c

RECURSIVE SortedSeq(_)
\* The integers of a finite set in increasing order.
SortedSeq(S) ==
    IF S = {} THEN <<>>
    ELSE LET lo == CHOOSE x \in S : \A y \in S : x <= y
         IN  <<lo>> \o SortedSeq(S \ {lo})

\* The integer keys of a column.
KeySet(col) == {col[i].m : i \in 1..Len(col)}

\* DataFrame.pivot refuses two rows with the same (index, columns) pair.
HasDuplicates(d, index, columns) ==
    \E i, j \in 1..Len(d.data[index]) :
        /\ i # j
        /\ d.data[index][i] = d.data[index][j]
        /\ d.data[columns][i] = d.data[columns][j]

\* DataFrame.pivot: sorted distinct keys, one cell per pair, NaN where no row.
pivot(d, index, columns, values) ==
    LET rows == SortedSeq(KeySet(d.data[index]))
        cs == SortedSeq(KeySet(d.data[columns]))
        at(r, c) == {i \in 1..Len(d.data[values]) :
                        d.data[index][i].m = rows[r] /\ d.data[columns][i].m = cs[c]}
    IN  [index |-> rows,
         columns |-> cs,
         values |-> [r \in 1..Len(rows) |-> [c \in 1..Len(cs) |->
                       IF at(r, c) = {} THEN NaN
                       ELSE d.data[values][CHOOSE i \in at(r, c) : TRUE]]]]

\* ------------------------------------------------------------ input files
\* A full-width data line holding the four kept fields, right-justified.
EncodeLine(n, z, e, u) ==
    LET tok(c) == IF c = usecols[1] THEN Digits(n)
                  ELSE IF c = usecols[2] THEN Digits(z)
                  ELSE IF c = usecols[3] THEN e
                  ELSE IF c = usecols[4] THEN u
                  ELSE <<>>
        RECURSIVE upto(_)
        upto(c) == IF c < 0 THEN <<>> ELSE upto(c - 1) \o RJust(tok(c), widths[c + 1])
    IN  upto(Len(widths) - 1)

EMarked == <<"-", "1", "2", "#">>
UMarked == <<"4", "#">>
EPlain == <<"8", ".", "5">>
UPlain == <<"3">>
Junk == <<"x">>
NaToken == <<"N", "A">>

\* The E field of the generated line of a nuclide: estimated, one value per nuclide.
NuclideE(n, z) == <<"-">> \o Digits(10 * (n + 1) + z) \o <<"#">>

\* A line of every nuclide 0..MaxN x 0..MaxZ.
NuclideLines == {EncodeLine(n, z, NuclideE(n, z), UMarked) : n \in 0..MaxN, z \in 0..MaxZ}

\* Lines of one nuclide: estimated, measured, and with blank, missing-value
\* and non-numeric fields.
FieldLines ==
    {EncodeLine(1, 1, eu[1], eu[2]) :
        eu \in {<<EMarked, UMarked>>, <<EPlain, UPlain>>, <<<<>>, <<>>>>, <<<<>>, UMarked>>,
                <<Junk, UPlain>>, <<NaToken, UMarked>>, <<EMarked, Junk>>}}

\* Lengths at which a line is cut: an empty line, a line that ends where the
\* E field starts, and a line that ends inside the E field, before its marker.
TruncLens == {0, ColFrom(usecols[3]), ColTo(usecols[3]) - 1}
ShortLines == {SubSeq(EncodeLine(1, 1, EMarked, UMarked), 1, t) : t \in TruncLens}

Lines == NuclideLines \cup FieldLines \cup ShortLines

\* The header+1 lines before the data: the banner and the header line.
Banner == [i \in 1..(header + 1) |-> <<"*">>]

Files == {Banner \o d : d \in UNION {[1..k -> Lines] : k \in 1..MaxRows}}

\* ---------------------------------------------------------- state machine
VARIABLES
    file,   \* the lines of mass_1.mas20
    pc,     \* the statement parse.py executes next
    df,     \* parse.py's data frame
    err,    \* the exception that ended parse.py, if any
    csv,    \* binding_energy_per_A.csv, or NoFile
    rpc,    \* the statement 3d-plot.py executes next
    rdf,    \* 3d-plot.py's data frame
    new_df, \* 3d-plot.py's pivoted grid
    rerr    \* the exception that ended 3d-plot.py, if any

vars == <<file, pc, df, err, csv, rpc, rdf, new_df, rerr>>
rvars == <<rpc, rdf, new_df, rerr>>

NoFile == [t |-> "nofile"]
NoFrame == [cols |-> <<>>, data |-> <<>>]
NoGrid == [index |-> <<>>, columns |-> <<>>, values |-> <<>>]

Init ==
    /\ file \in Files
    /\ pc = "read_fwf"
    /\ df = NoFrame
    /\ err = "none"
    /\ csv = NoFile
    /\ rpc = "read_csv"
    /\ rdf = NoFrame
    /\ new_df = NoGrid
    /\ rerr = "none"

Raise(e) == pc' = "failed" /\ err' = e /\ UNCHANGED <<file, df, csv, rvars>>
Goto(l) == pc' = l /\ UNCHANGED <<file, err, csv, rvars>>

\* Lines 5-12.
ReadFwf ==
    /\ pc = "read_fwf"
    /\ df' = read_fwf(file)
    /\ Goto("known")

\* Line 15.
SetKnown ==
    /\ pc = "known"
    /\ df' = SetColumn(df, "known", [i \in 1..Len(df.data["E"]) |-> Known(df.data["E"][i])])
    /\ Goto("E")

\* df[name] = pd.to_numeric(df[name].str.replace("#", "")).
Convert(name, next) ==
    LET col == df.data[name]
        stripped == [i \in 1..Len(col) |-> StrReplace(col[i])]
    IN  \/ /\ ~IsObject(col)
           /\ Raise("AttributeError")
        \/ /\ IsObject(col)
           /\ \E i \in 1..Len(col) : ~CanConvert(stripped[i])
           /\ Raise("ValueError")
        \/ /\ IsObject(col)
           /\ \A i \in 1..Len(col) : CanConvert(stripped[i])
           /\ df' = SetColumn(df, name, [i \in 1..Len(col) |-> ToNumeric(stripped[i])])
           /\ Goto(next)

\* Line 16.
SetE == pc = "E" /\ Convert("E", "U(E)")

\* Line 17.
SetU == pc = "U(E)" /\ Convert("U(E)", "A")

\* Line 18.
SetA ==
    /\ pc = "A"
    /\ df' = SetColumn(df, "A", [i \in 1..Len(df.data["N"]) |-> Add(df.data["N"][i], df.data["Z"][i])])
    /\ Goto("N-Z")

\* Line 19.
SetNminusZ ==
    /\ pc = "N-Z"
    /\ df' = SetColumn(df, "N-Z", [i \in 1..Len(df.data["N"]) |-> Sub(df.data["N"][i], df.data["Z"][i])])
    /\ Goto("N/Z")

\* Line 24.
SetNoverZ ==
    /\ pc = "N/Z"
    /\ df' = SetColumn(df, "N/Z", [i \in 1..Len(df.data["N"]) |-> TrueDiv(df.data["N"][i], df.data["Z"][i])])
    /\ Goto("to_csv")

\* Line 27.
ToCsv ==
    /\ pc = "to_csv"
    /\ csv' = to_csv(df)
    /\ pc' = "done"
    /\ UNCHANGED <<file, df, err, rvars>>

RRaise(e) == rpc' = "failed" /\ rerr' = e /\ UNCHANGED <<file, pc, df, err, csv, rdf, new_df>>
RGoto(l) == rpc' = l /\ UNCHANGED <<file, pc, df, err, csv, rerr>>

\* 3d-plot.py line 11.  The renderer is run after the decoder has ended.
ReadCsv ==
    /\ pc \in {"done", "failed"}
    /\ rpc = "read_csv"
    /\ \/ /\ csv = NoFile
          /\ RRaise("FileNotFoundError")
       \/ /\ csv # NoFile
          /\ rdf' = read_csv(csv)
          /\ new_df' = new_df
          /\ RGoto("E")

\* 3d-plot.py line 14.
ScaleE ==
    /\ rpc = "E"
    /\ rdf' = SetColumn(rdf, "E", [i \in 1..Len(rdf.data["E"]) |-> Div1000(rdf.data["E"][i])])
    /\ new_df' = new_df
    /\ RGoto("U(E)")

\* 3d-plot.py line 15.
ScaleU ==
    /\ rpc = "U(E)"
    /\ rdf' = SetColumn(rdf, "U(E)", [i \in 1..Len(rdf.data["U(E)"]) |-> Div1000(rdf.data["U(E)"][i])])
    /\ new_df' = new_df
    /\ RGoto("pivot")

\* 3d-plot.py line 17.
Pivot ==
    /\ rpc = "pivot"
    /\ \/ /\ HasDuplicates(rdf, "N-Z", "A")
          /\ RRaise("ValueError")
       \/ /\ ~HasDuplicates(rdf, "N-Z", "A")
          /\ new_df' = pivot(rdf, "N-Z", "A", "E")
          /\ rdf' = rdf
          /\ RGoto("plot")

\* 3d-plot.py lines 19-27: the surface over the grid is drawn and shown.
Plot ==
    /\ rpc = "plot"
    /\ UNCHANGED <<rdf, new_df>>
    /\ RGoto("done")

Next ==
    \/ ReadFwf
    \/ SetKnown
    \/ SetE
    \/ SetU
    \/ SetA
    \/ SetNminusZ
    \/ SetNoverZ
    \/ ToCsv
    \/ ReadCsv
    \/ ScaleE
    \/ ScaleU
    \/ Pivot
    \/ Plot

Spec == Init /\ [][Next]_vars

\* ------------------------------------------------------------- properties
\* The data rows of the input file and the raw text of their four fields
\* (1 = N, 2 = Z, 3 = E, 4 = U(E)), as read_fwf slices and strips them.
Rows == DataLines(file)
RECURSIVE RawRowsOf(_)
RawRowsOf(ls) ==
    IF ls = <<>> THEN <<>>
    ELSE <<<<RawField(Head(ls), 1), RawField(Head(ls), 2),
             RawField(Head(ls), 3), RawField(Head(ls), 4)>>>> \o RawRowsOf(Tail(ls))
RawRows == RawRowsOf(Rows)

NoMarker(s) == SelectSeq(s, LAMBDA c : c # "#")
HasMarker(s) == \E j \in 1..Len(s) : s[j] = "#"
\* The natural number a text of digits writes.
TextNat(s) == DigitsVal(s, 0)
HasCol(c) == \E k \in 1..Len(df.cols) : df.cols[k] = c
Col(c) == df.data[c]
CsvCol(c) == CHOOSE k \in 1..Len(csv.header) : csv.header[k] = c
CsvCell(i, c) == csv.rows[i][CsvCol(c)]
RECURSIVE Pow10(_)
Pow10(k) == IF k = 0 THEN 1 ELSE 10 * Pow10(k - 1)
\* The cell c is the decimal number with the digits of text s (sign, point).
IsValueOf(c, s) ==
    LET b == Unsigned(s)
        frac == IF DotCount(b) = 0 THEN 0 ELSE Len(b) - DotPos(b)
        mant == Sign(s) * DigitsVal(SelectSeq(b, LAMBDA x : x # "."), 0)
    IN  c.t = "num" /\ c.m * Pow10(frac) = mant * Pow10(c.s)

\* C1: known is 0 or 1, and it is 0 exactly when the raw E field, marker
\* included, is blank or is no number.
C1_KnownFromRawField ==
    HasCol("known") =>
        LET raw == RawRows
        IN  \A i \in 1..Len(raw) :
                /\ Col("known")[i] \in {IntCell(0), IntCell(1)}
                /\ Col("known")[i] = IntCell(0) <=> ~IsNumeric(raw[i][3])

\* A frame with an estimated (marked) row and a measured row.
C1_Witness ==
    /\ HasCol("known")
    /\ \E i, j \in 1..Len(RawRows) :
          /\ RawRows[i][3] = EMarked /\ Col("known")[i] = IntCell(0)
          /\ RawRows[j][3] = EPlain /\ Col("known")[j] = IntCell(1)

\* C2 as claimed: known is 0 exactly when the raw E field with the marker
\* stripped is no number, so "-12#" gives known = 1.
C2_Claimed_KnownFromStrippedField ==
    HasCol("known") =>
        LET raw == RawRows
        IN  \A i \in 1..Len(raw) :
                Col("known")[i] = IntCell(0) <=> ~IsNumeric(NoMarker(raw[i][3]))

\* C2 amended: a row whose raw E field carries the marker has known = 0,
\* and once E is converted the field "-12#" is the number -12.
C2_MarkedRowIsUnknown ==
    HasCol("known") =>
        LET raw == RawRows
        IN  \A i \in 1..Len(raw) :
                /\ HasMarker(raw[i][3]) => Col("known")[i] = IntCell(0)
                /\ (raw[i][3] = EMarked /\ ~IsObject(Col("E"))) =>
                       Col("E")[i] = [t |-> "num", m |-> -12, s |-> 0]

\* A written CSV with the row of a marked E field.
C2_Witness ==
    /\ pc = "done"
    /\ \E i \in 1..Len(RawRows) :
          /\ RawRows[i][3] = EMarked
          /\ CsvCell(i, "known") = IntCell(0)
          /\ CsvCell(i, "E") = [t |-> "num", m |-> -12, s |-> 0]

\* C3 as claimed: decoding fails only on a field that is no number once the
\* markers are removed (markers, here or in other rows, decide nothing), and
\* the decoded E and U(E) are the numbers of the fields without markers.
C3_Claimed_MarkerIrrelevant ==
    LET raw == RawRows
    IN  /\ pc = "failed" =>
              \E i \in 1..Len(raw), k \in {3, 4} :
                  NoMarker(raw[i][k]) # <<>> /\ ~IsNumeric(NoMarker(raw[i][k]))
        /\ pc = "done" =>
              \A i \in 1..Len(raw), k \in {3, 4} :
                  /\ IsNumeric(NoMarker(raw[i][k])) =>
                         IsValueOf(Col(names[k])[i], NoMarker(raw[i][k]))
                  /\ NoMarker(raw[i][k]) = <<>> => Col(names[k])[i] = NaN

\* C4: in the frame and in the CSV, A is N + Z and N-Z is N - Z of the same row.
C4_MassNumberAndExcess ==
    LET raw == RawRows
    IN  /\ HasCol("A") =>
              \A i \in 1..Len(raw) :
                  Col("A")[i] =
                      [t |-> "num", m |-> TextNat(raw[i][1]) + TextNat(raw[i][2]), s |-> 0]
        /\ HasCol("N-Z") =>
              \A i \in 1..Len(raw) :
                  Col("N-Z")[i] =
                      [t |-> "num", m |-> TextNat(raw[i][1]) - TextNat(raw[i][2]), s |-> 0]
        /\ pc = "done" =>
              \A i \in 1..Len(csv.rows) :
                  /\ CsvCell(i, "N").m = TextNat(raw[i][1])
                  /\ CsvCell(i, "Z").m = TextNat(raw[i][2])
                  /\ CsvCell(i, "A").m = CsvCell(i, "N").m + CsvCell(i, "Z").m
                  /\ CsvCell(i, "N-Z").m = CsvCell(i, "N").m - CsvCell(i, "Z").m

\* A written row with an odd mass number and one with N < Z.
C4_Witness ==
    /\ pc = "done"
    /\ \E i, j \in 1..Len(csv.rows) :
          /\ CsvCell(i, "A").m = 1 /\ CsvCell(i, "N-Z").m = 1
          /\ CsvCell(j, "N-Z").m = -1

\* The rows of the CSV are the data rows raw of the file, in the file's order.
SameRowsInOrder(raw) ==
    /\ Len(csv.rows) = Len(raw)
    /\ \A i \in 1..Len(raw) :
          /\ CsvCell(i, "N").m = TextNat(raw[i][1])
          /\ CsvCell(i, "Z").m = TextNat(raw[i][2])
          /\ IF IsNumeric(NoMarker(raw[i][3]))
             THEN IsValueOf(CsvCell(i, "E"), NoMarker(raw[i][3]))
             ELSE CsvCell(i, "E") = EmptyField

\* C5 as claimed: one CSV row per data row, in order, and a row with a blank
\* E field has known = 0 and empty E and U(E).
C5_Claimed_BlankRowHasNoUncertainty ==
    pc = "done" =>
        LET raw == RawRows
        IN  /\ SameRowsInOrder(raw)
            /\ \A i \in 1..Len(raw) :
                  raw[i][3] = <<>> =>
                      /\ CsvCell(i, "known") = IntCell(0)
                      /\ CsvCell(i, "E") = EmptyField
                      /\ CsvCell(i, "U(E)") = EmptyField

\* C5 amended: one CSV row per data row, in order; a row with a blank E
\* field has known = 0 and an empty E; its U(E) is empty when its U(E) field
\* is blank and is the field's number when that is a number.
C5_RowsKeptInOrder ==
    pc = "done" =>
        LET raw == RawRows
        IN  /\ SameRowsInOrder(raw)
            /\ \A i \in 1..Len(raw) :
                  raw[i][3] = <<>> =>
                      /\ CsvCell(i, "known") = IntCell(0)
                      /\ CsvCell(i, "E") = EmptyField
                      /\ raw[i][4] = <<>> => CsvCell(i, "U(E)") = EmptyField
                      /\ IsNumeric(NoMarker(raw[i][4])) =>
                             IsValueOf(CsvCell(i, "U(E)"), NoMarker(raw[i][4]))

\* A CSV of two rows whose first has a blank E field and a U(E) of 4.
C5_Witness ==
    /\ pc = "done"
    /\ Len(csv.rows) = 2
    /\ RawRows[1][3] = <<>>
    /\ RawRows[1][4] = UMarked
    /\ CsvCell(1, "E") = EmptyField
    /\ CsvCell(1, "U(E)") = [t |-> "num", m |-> 4, s |-> 0]
    /\ CsvCell(2, "E") # EmptyField

\* C6: the division never ends the run (a failed run has no derived column),
\* a row with Z = 0 gets a non-finite N/Z and is written, and a row with
\* Z > 0 gets the quotient N / Z.
C6_DivisionByZeroTolerated ==
    /\ pc = "failed" => ~HasCol("A") /\ ~HasCol("N-Z") /\ ~HasCol("N/Z")
    /\ HasCol("N/Z") =>
          LET raw == RawRows
          IN  /\ \A i \in 1..Len(raw) :
                    LET q == Col("N/Z")[i]
                        n == TextNat(raw[i][1])
                        z == TextNat(raw[i][2])
                    IN  IF z = 0
                        THEN q \in {Inf, NegInf, NaN}
                        ELSE q.t = "ratio" /\ q.d > 0 /\ q.n * z = q.d * n
              /\ pc = "done" =>
                    /\ Len(csv.rows) = Len(raw)
                    /\ \A i \in 1..Len(raw) :
                          TextNat(raw[i][2]) = 0 =>
                              CsvCell(i, "N/Z") \in {Inf, NegInf, EmptyField}

\* A finished run that wrote the row N = 1, Z = 0 and a row with Z > 0.
C6_Witness ==
    /\ pc = "done"
    /\ \E i, j \in 1..Len(RawRows) :
          /\ TextNat(RawRows[i][1]) = 1
          /\ TextNat(RawRows[i][2]) = 0
          /\ CsvCell(i, "N/Z") = Inf
          /\ TextNat(RawRows[j][2]) > 0
          /\ CsvCell(j, "N/Z").t = "ratio"

\* The lines after the header line, and those that end before the end of
\* the U(E) field.
AllDataLines == SubSeq(file, header + 2, Len(file))
IsShort(line) == Len(line) < ColTo(usecols[4])

\* C7 as claimed: the run over a file with a data line too short for the
\* four fields aborts, so it never ends with the CSV written.
C7_Claimed_ShortLineIsFatal ==
    (\E i \in 1..Len(AllDataLines) : IsShort(AllDataLines[i]) /\ AllDataLines[i] # <<>>) =>
        pc # "done"

\* C7 amended: reading never fails on a short line.  An empty line is no
\* row; of any other short line, a field that lies beyond its end is read
\* as missing and a field its end cuts is read as the text that is left.
C7_ShortLineIsReadBlankOrTruncated ==
    pc # "read_fwf" =>
        /\ df # NoFrame
        /\ Len(Col("N")) = Cardinality({i \in 1..Len(AllDataLines) : AllDataLines[i] # <<>>})
        /\ pc = "known" =>
              LET rows == Rows
              IN  \A i \in 1..Len(rows), k \in {3, 4} :
                      LET from == ColFrom(usecols[k])
                          to == ColTo(usecols[k])
                          left == Strip(SubSeq(rows[i], from + 1, Len(rows[i])))
                          cell == Col(names[k])[i]
                      IN  /\ (Len(rows[i]) <= from \/ left = <<>>) => cell = NaN
                          /\ (from < Len(rows[i]) /\ Len(rows[i]) < to /\ left # <<>>) =>
                                 \/ cell = Str(left)
                                 \/ IsNumeric(left) /\ IsValueOf(cell, left)

\* A finished run over a file whose first line is cut inside its E field:
\* its E was read as -12 (the marker lost) and its U(E) as missing.
C7_Witness ==
    /\ pc = "done"
    /\ Len(Rows) = 2
    /\ IsShort(Rows[1])
    /\ ~IsShort(Rows[2])
    /\ RawRows[1][3] = <<"-", "1", "2">>
    /\ CsvCell(1, "E") = [t |-> "num", m |-> -12, s |-> 0]
    /\ CsvCell(1, "known") = IntCell(1)
    /\ CsvCell(1, "U(E)") = EmptyField

\* C8 as claimed: a run over a file with an E or U(E) field that is neither
\* blank nor a number once the markers are removed ends in an error, so no
\* such run ends with the CSV written.
C8_Claimed_JunkIsFatal ==
    pc = "done" =>
        LET raw == RawRows
        IN  \A i \in 1..Len(raw), k \in {3, 4} :
                NoMarker(raw[i][k]) = <<>> \/ IsNumeric(NoMarker(raw[i][k]))

\* The records of the CSV as the renderer reads them.
GridRows == {CsvCell(i, "N-Z").m : i \in 1..Len(csv.rows)}
GridCols == {CsvCell(i, "A").m : i \in 1..Len(csv.rows)}
Increasing(q) == \A i, j \in 1..Len(q) : i < j => q[i] < q[j]
\* The cell g is the CSV field e divided by 1000 (empty stays missing).
IsThousandth(g, e) ==
    IF e = EmptyField THEN g = NaN
    ELSE g.t = "num" /\ g.m * Pow10(e.s + 3) = e.m * Pow10(g.s)

\* C9: the grid's rows are the distinct N-Z in increasing order, its columns
\* the distinct A in increasing order, and the cell at (d, a) is E / 1000 of
\* the record with N-Z = d and A = a, or missing when there is none.
C9_PlotGrid ==
    rpc \in {"plot", "done"} =>
        /\ Increasing(new_df.index) /\ Increasing(new_df.columns)
        /\ {new_df.index[r] : r \in 1..Len(new_df.index)} = GridRows
        /\ {new_df.columns[c] : c \in 1..Len(new_df.columns)} = GridCols
        /\ Len(new_df.values) = Len(new_df.index)
        /\ \A r \in 1..Len(new_df.index) :
              /\ Len(new_df.values[r]) = Len(new_df.columns)
              /\ \A c \in 1..Len(new_df.columns) :
                    LET recs == {i \in 1..Len(csv.rows) :
                                    /\ CsvCell(i, "N-Z").m = new_df.index[r]
                                    /\ CsvCell(i, "A").m = new_df.columns[c]}
                    IN  /\ \A i \in recs : IsThousandth(new_df.values[r][c], CsvCell(i, "E"))
                        /\ recs = {} => new_df.values[r][c] = NaN

\* A grid of two records with A = 1 and N-Z = -1 and 1 (E = -11 and -20):
\* one column, two rows, -0.011 in the one and -0.02 in the other.
C9_Witness ==
    /\ rpc = "done"
    /\ new_df.index = <<-1, 1>>
    /\ new_df.columns = <<1>>
    /\ new_df.values[1][1] = [t |-> "num", m |-> -11, s |-> 3]
    /\ new_df.values[2][1] = [t |-> "num", m |-> -2, s |-> 2]

\* The (N, Z) pairs of the data rows raw, how many rows have a pair, and how
\* many records of the CSV.
FilePairs(raw) == {<<TextNat(raw[i][1]), TextNat(raw[i][2])>> : i \in 1..Len(raw)}
LinesOf(raw, p) ==
    Cardinality({i \in 1..Len(raw) : <<TextNat(raw[i][1]), TextNat(raw[i][2])>> = p})
RecordsOf(p) ==
    Cardinality({i \in 1..Len(csv.rows) : <<CsvCell(i, "N").m, CsvCell(i, "Z").m>> = p})

\* C10 as claimed: the CSV holds exactly one record for each distinct (N, Z)
\* pair of the file.
C10_Claimed_OneRecordPerPair ==
    pc = "done" => \A p \in FilePairs(RawRows) : RecordsOf(p) = 1

\* C10 amended: the CSV holds, for each (N, Z) pair, as many records as the
\* file has data rows with that pair, and no record of any other pair.
C10_OneRecordPerLine ==
    pc = "done" =>
        LET raw == RawRows
            pairs == FilePairs(raw)
        IN  /\ \A p \in pairs : RecordsOf(p) = LinesOf(raw, p)
            /\ \A i \in 1..Len(csv.rows) :
                  <<CsvCell(i, "N").m, CsvCell(i, "Z").m>> \in pairs

\* A written CSV with two records of one pair, which the renderer refuses.
C10_Witness ==
    /\ pc = "done"
    /\ \E p \in FilePairs(RawRows) : LinesOf(RawRows, p) = 2 /\ RecordsOf(p) = 2
    /\ rpc = "failed"
    /\ rerr = "ValueError"

====
